---- MODULE Spec2Model ----
(***************************************************************************)
(* Model of the inngest plugin's decision-and-derivation core:             *)
(*   - operation resolution (getOperation, getOperationName, sendOperation,*)
(*     isAnonymousOperation),                                              *)
(*   - the document walks (isIntrospectionQuery, denyType,                 *)
(*     denySchemaCoordinate),                                              *)
(*   - the emission policy cascade (shouldSendEvent),                      *)
(*   - entity extraction (buildTypeIdentifiers),                           *)
(*   - event naming (buildOperationNameForEventName, buildEventName).      *)
(*                                                                         *)
(* Conventions.  A JavaScript value that may be undefined is a sequence of *)
(* length 0 (undefined) or 1 (the value).  Operation names are sequences   *)
(* of one-character strings, because kebab-casing inspects them character  *)
(* by character; every other string is a TLA+ string.  A call's outcome is *)
(* a record [throws, value, log]: the value returned (or the error thrown) *)
(* and the warnings the call sent to options.logger.warn, in order.        *)
(***************************************************************************)
EXTENDS Integers, Sequences, FiniteSets, TLC

VARIABLES
  options,        \* the options object of the current execution (params, config, result)
  called,         \* which exported function was called last ("none" before any call)
  ret,            \* the outcome of that call: [throws, value, log] (NoCall until it ends)
  visited,        \* the nodes handed to the visitor so far: the leaves of visitResult
                  \* (buildTypeIdentifiers), the field nodes of visit (the document walks)
  identifierSet,  \* buildTypeIdentifiers: the Map, as its entries [key, value] in insertion order
  typeSet,        \* buildTypeIdentifiers: the Set, as its members in insertion order
  pc              \* "idle", "visiting" (inside visitResult or visit) or "done"

vars == <<options, called, ret, visited, identifierSet, typeSet, pc>>

----------------------------------------------------------------------------
(* Bounds of the model *)

MaxDefs == 2      \* definitions per document
MaxFields == 2    \* field nodes per document
MaxErrors == 1    \* entries of result.errors
MaxLeaves == 4    \* leaves of a result tree

----------------------------------------------------------------------------
(* JavaScript values *)

Undefined == <<>>
Some(x) == <<x>>
IsDefined(o) == Len(o) > 0
Get(o) == o[1]

\* JavaScript truthiness of an optional boolean (undefined and false are falsy)
Truthy(o) == IsDefined(o) /\ Get(o)

\* JavaScript truthiness of an optional string (undefined and "" are falsy)
TruthyString(o) == IsDefined(o) /\ Len(Get(o)) > 0

\* includes: Array.prototype.includes
includes(list, x) == \E i \in 1..Len(list) : list[i] = x

\* the strings of a sequence of one-character strings, joined
RECURSIVE Join(_)
Join(chars) == IF Len(chars) = 0 THEN "" ELSE Head(chars) \o Join(Tail(chars))

\* a call's outcome
Return(v, log) == [throws |-> FALSE, value |-> v, log |-> log]
Throw(e, log) == [throws |-> TRUE, value |-> e, log |-> log]
NoCall == [throws |-> FALSE, value |-> "none", log |-> <<>>]

\* all sequences over S of length at most n
SeqsUpTo(S, n) == UNION {[1..k -> S] : k \in 0..n}

----------------------------------------------------------------------------
(* Documents and the schema *)

TestQuery == <<"T", "e", "s", "t", "Q", "u", "e", "r", "y">>
FindPosts == <<"F", "i", "n", "d", "P", "o", "s", "t", "s">>

OperationTypes == {"query", "mutation"}

\* an operation definition node: its operation type and its optional name
OperationDefinition(operation, name) ==
  [kind |-> "OperationDefinition", operation |-> operation, name |-> name]

\* a fragment definition node (it always has a name)
FragmentDefinition(name) ==
  [kind |-> "FragmentDefinition", operation |-> "fragment", name |-> Some(name)]

\* A field node as visitWithTypeInfo presents it: the enclosing (parent) type, the
\* field's name, and the named type the schema resolves the field to.
Field(parentType, name, type) == [parentType |-> parentType, name |-> name, type |-> type]

\* fields of the schema of the tests, and the introspection entry point
FieldSchema == Field(Some("Query"), "__schema", Some("__Schema"))
FieldPost == Field(Some("Query"), "post", Some("Post"))
FieldTitle == Field(Some("Post"), "title", Some("String"))

\* a field the schema does not define (typeInfo.getType() is undefined), and a
\* field selected beneath it (typeInfo.getParentType() is undefined as well)
FieldUnknown == Field(Some("Query"), "unknown", Undefined)
FieldOrphan == Field(Undefined, "title", Undefined)

\* A document: its definitions, and its field nodes in the order a depth-first
\* visit of the whole document enters them.
Document(definitions, fields) == [definitions |-> definitions, fields |-> fields]

\* graphql-js isIntrospectionType: the type is one of the schema's meta types
IntrospectionTypes ==
  {"__Schema", "__Directive", "__DirectiveLocation", "__Type", "__Field",
   "__InputValue", "__EnumValue", "__TypeKind"}

isIntrospectionType(typeName) == typeName \in IntrospectionTypes

\* graphql-js getOperationAST: with no operationName the only operation of the
\* document (none when there are several); with an operationName the first
\* operation of that name; otherwise null
getOperationAST(document, operationName) ==
  LET ops == SelectSeq(document.definitions, LAMBDA d : d.kind = "OperationDefinition")
      named == SelectSeq(ops, LAMBDA d : d.name = operationName)
  IN IF ~IsDefined(operationName)
     THEN IF Len(ops) = 1 THEN Some(ops[1]) ELSE Undefined
     ELSE IF Len(named) > 0 THEN Some(named[1]) ELSE Undefined

----------------------------------------------------------------------------
(* Operation resolution *)

\* a getOperation that falls back to 'query'
getOperationDefaultQuery(params) ==
  LET operationAST == getOperationAST(params.args.document, params.args.operationName)
  IN IF IsDefined(operationAST) THEN Get(operationAST).operation ELSE "query"

\* getOperation: the resolved operation's type, or 'unknown'
getOperation(params) ==
  LET operationAST == getOperationAST(params.args.document, params.args.operationName)
  IN IF IsDefined(operationAST) THEN Get(operationAST).operation ELSE "unknown"

\* getOperationName: args.operationName || rootOperation.name?.value || undefined,
\* where rootOperation is the first operation definition the document lists.
\* Reading .name of an undefined rootOperation throws a TypeError.
getOperationName(opts) ==
  LET args == opts.params.args
      found == SelectSeq(args.document.definitions,
                         LAMBDA d : d.kind = "OperationDefinition")
  IN IF TruthyString(args.operationName)
     THEN Return(args.operationName, <<>>)
     ELSE IF Len(found) = 0
          THEN Throw("TypeError", <<>>)
          ELSE IF TruthyString(found[1].name)
               THEN Return(found[1].name, <<>>)
               ELSE Return(Undefined, <<>>)

\* an optional name as a template literal renders it
NameText(name) == IF IsDefined(name) THEN Join(Get(name)) ELSE "undefined"

\* sendOperation: is the operation's type in options.sendOperations?
\* The guard of the first warning, (!options.sendOperations) === undefined,
\* compares a boolean with undefined.
sendOperation(opts) ==
  LET notSendOperations == ~IsDefined(opts.sendOperations)
      log1 == IF Some(notSendOperations) = Undefined
              THEN <<"No operations are allowed.">>
              ELSE <<>>
      ops == IF IsDefined(opts.sendOperations)
             THEN {Get(opts.sendOperations)[i] : i \in 1..Len(Get(opts.sendOperations))}
             ELSE {}
      operation == getOperation(opts.params)
      allow == operation \in ops
      operationName == getOperationName(opts)
  IN IF operation = "unknown"
     THEN Return(FALSE, log1 \o <<"Unknown operation">>)
     ELSE IF allow
          THEN Return(TRUE, log1)
          ELSE IF operationName.throws
               THEN Throw(operationName.value, log1)
               ELSE Return(FALSE,
                           log1 \o <<"Operation " \o operation \o " named "
                                     \o NameText(operationName.value) \o " is not allowed">>)

\* allowOperation: the allow-list check shouldSendEvent imports from ./tools
allowOperation(opts) == sendOperation(opts)

\* isAnonymousOperation: getOperationName({ params }) === undefined
isAnonymousOperation(params) ==
  LET operationName == getOperationName([params |-> params])
  IN IF operationName.throws
     THEN operationName
     ELSE Return(operationName.value = Undefined, <<>>)

----------------------------------------------------------------------------
(* The early-terminating document walks *)

\* visit(document, visitWithTypeInfo(typeInfo, { Field() {...} })) of
\* isIntrospectionQuery, from the i-th field node on: whether a field matched,
\* and how many field nodes were entered (BREAK stops the visit at a match)
RECURSIVE visitIntrospection(_, _)
visitIntrospection(fields, i) ==
  IF i > Len(fields)
  THEN [found |-> FALSE, entered |-> Len(fields)]
  ELSE IF IsDefined(fields[i].type) /\ isIntrospectionType(Get(fields[i].type))
       THEN [found |-> TRUE, entered |-> i]
       ELSE visitIntrospection(fields, i + 1)

isIntrospectionQuery(params) == visitIntrospection(params.args.document.fields, 1).found

\* the visit of denyType
RECURSIVE visitDenyType(_, _, _)
visitDenyType(fields, typeDenyList, i) ==
  IF i > Len(fields)
  THEN [found |-> FALSE, entered |-> Len(fields)]
  ELSE IF IsDefined(fields[i].type) /\ includes(typeDenyList, Get(fields[i].type))
       THEN [found |-> TRUE, entered |-> i]
       ELSE visitDenyType(fields, typeDenyList, i + 1)

denyType(opts) ==
  LET typeDenyList == IF IsDefined(opts.denylist) /\ IsDefined(Get(opts.denylist).types)
                      THEN Get(Get(opts.denylist).types)
                      ELSE <<>>
  IN visitDenyType(opts.params.args.document.fields, typeDenyList, 1).found

\* the visit of denySchemaCoordinate
RECURSIVE visitDenySchemaCoordinate(_, _, _)
visitDenySchemaCoordinate(fields, schemaCoordinateDenyList, i) ==
  IF i > Len(fields)
  THEN [found |-> FALSE, entered |-> Len(fields)]
  ELSE IF /\ IsDefined(fields[i].parentType)
          /\ includes(schemaCoordinateDenyList,
                      Get(fields[i].parentType) \o "." \o fields[i].name)
       THEN [found |-> TRUE, entered |-> i]
       ELSE visitDenySchemaCoordinate(fields, schemaCoordinateDenyList, i + 1)

denySchemaCoordinate(opts) ==
  LET schemaCoordinateDenyList ==
        IF IsDefined(opts.denylist) /\ IsDefined(Get(opts.denylist).schemaCoordinates)
        THEN Get(Get(opts.denylist).schemaCoordinates)
        ELSE <<>>
  IN visitDenySchemaCoordinate(opts.params.args.document.fields,
                               schemaCoordinateDenyList, 1).found

\* a Field visitor that tests the enclosing type where denyType tests the
\* field's own type
FieldVisitorOnParentType(name, opts, fieldNode) ==
  IF name = "isIntrospectionQuery"
  THEN IF IsDefined(fieldNode.type) /\ isIntrospectionType(Get(fieldNode.type))
       THEN "BREAK" ELSE "undefined"
  ELSE IF name = "denyType"
  THEN LET typeDenyList == IF IsDefined(opts.denylist) /\ IsDefined(Get(opts.denylist).types)
                           THEN Get(Get(opts.denylist).types)
                           ELSE <<>>
       IN IF IsDefined(fieldNode.parentType) /\ includes(typeDenyList, Get(fieldNode.parentType))
          THEN "BREAK" ELSE "undefined"
  ELSE LET schemaCoordinateDenyList ==
             IF IsDefined(opts.denylist) /\ IsDefined(Get(opts.denylist).schemaCoordinates)
             THEN Get(Get(opts.denylist).schemaCoordinates)
             ELSE <<>>
       IN IF /\ IsDefined(fieldNode.parentType)
             /\ includes(schemaCoordinateDenyList,
                         Get(fieldNode.parentType) \o "." \o fieldNode.name)
          THEN "BREAK" ELSE "undefined"

\* One call of the Field() visitor of the walk called name, on entering
\* fieldNode: what the visitor returns to visit(), BREAK (after it has set the
\* walk's flag) or undefined (the visit goes on).
FieldVisitor(name, opts, fieldNode) ==
  IF name = "isIntrospectionQuery"
  THEN IF IsDefined(fieldNode.type) /\ isIntrospectionType(Get(fieldNode.type))
       THEN "BREAK" ELSE "undefined"
  ELSE IF name = "denyType"
  THEN LET typeDenyList == IF IsDefined(opts.denylist) /\ IsDefined(Get(opts.denylist).types)
                           THEN Get(Get(opts.denylist).types)
                           ELSE <<>>
       IN IF IsDefined(fieldNode.type) /\ includes(typeDenyList, Get(fieldNode.type))
          THEN "BREAK" ELSE "undefined"
  ELSE LET schemaCoordinateDenyList ==
             IF IsDefined(opts.denylist) /\ IsDefined(Get(opts.denylist).schemaCoordinates)
             THEN Get(Get(opts.denylist).schemaCoordinates)
             ELSE <<>>
       IN IF /\ IsDefined(fieldNode.parentType)
             /\ includes(schemaCoordinateDenyList,
                         Get(fieldNode.parentType) \o "." \o fieldNode.name)
          THEN "BREAK" ELSE "undefined"

----------------------------------------------------------------------------
(* The emission policy cascade *)

BoolText(b) == IF b THEN "true" ELSE "false"

\* a hasErrors that forgets the length test
hasErrorsIgnoringLength(opts) ==
  IsDefined(opts.result) /\ IsDefined(Get(opts.result).errors)

\* a cascade whose default rule allows unless introspection AND errors
cascadeDefaultOr(opts, allowedOperation, isAnonymous, isIntrospection, hasErrors, shouldDenyType, shouldDenySchemaCoordinate, log) ==
  Return(IF ~allowedOperation \/ shouldDenyType \/ shouldDenySchemaCoordinate
         THEN FALSE
         ELSE IF \/ isAnonymous /\ Truthy(opts.sendAnonymousOperations)
                 \/ isIntrospection /\ Truthy(opts.sendIntrospection)
                 \/ hasErrors /\ Truthy(opts.sendErrors)
              THEN TRUE
              ELSE ~isIntrospection \/ ~hasErrors,
         log)

\* a cascade that consults the allow overrides before the denylists
cascadeOverridesFirst(opts, allowedOperation, isAnonymous, isIntrospection, hasErrors, shouldDenyType, shouldDenySchemaCoordinate, log) ==
  Return(IF ~allowedOperation
         THEN FALSE
         ELSE IF \/ isAnonymous /\ Truthy(opts.sendAnonymousOperations)
                 \/ isIntrospection /\ Truthy(opts.sendIntrospection)
                 \/ hasErrors /\ Truthy(opts.sendErrors)
              THEN TRUE
              ELSE IF shouldDenyType \/ shouldDenySchemaCoordinate
                   THEN FALSE
                   ELSE ~isIntrospection /\ ~hasErrors,
         log)

\* hasErrors: options.result?.errors !== undefined && options.result.errors.length > 0
hasErrorsOf(opts) ==
  /\ IsDefined(opts.result)
  /\ IsDefined(Get(opts.result).errors)
  /\ Len(Get(Get(opts.result).errors)) > 0

\* the cascade of shouldSendEvent over the signals it has computed; log is what
\* the calls before it have logged
cascade(opts, allowedOperation, isAnonymous, isIntrospection, hasErrors, shouldDenyType, shouldDenySchemaCoordinate, log) ==
  IF ~allowedOperation
  THEN Return(FALSE, log \o <<"Blocking event " \o opts.eventName
                               \o " because it is not an configured operation.">>)
  ELSE IF shouldDenyType
  THEN Return(FALSE, log \o <<"Blocking event " \o opts.eventName
                               \o " because it is present in the denylist of types.">>)
  ELSE IF shouldDenySchemaCoordinate
  THEN Return(FALSE, log \o <<"Blocking event " \o opts.eventName
                               \o " because it is present in the denylist of schema coordinates.">>)
  ELSE IF isAnonymous /\ Truthy(opts.sendAnonymousOperations)
  THEN Return(TRUE, log \o <<"Sending event " \o opts.eventName
                              \o " because anonymous operations are configured.">>)
  ELSE IF isIntrospection /\ Truthy(opts.sendIntrospection)
  THEN Return(TRUE, log \o <<"Sending event " \o opts.eventName
                              \o " because introspection queries are configured.">>)
  ELSE IF hasErrors /\ Truthy(opts.sendErrors)
  THEN Return(TRUE, log \o <<"Sending event " \o opts.eventName
                              \o " because sending errors is configured.">>)
  ELSE LET shouldSend == ~isIntrospection /\ ~hasErrors
       IN IF shouldSend
          THEN Return(TRUE, log \o <<"Sending event " \o opts.eventName
                                      \o " because it is an introspection "
                                      \o BoolText(isIntrospection) \o " or error "
                                      \o BoolText(hasErrors)>>)
          ELSE Return(FALSE, log \o <<"Blocking event " \o opts.eventName
                                       \o " because it is not an introspection "
                                       \o BoolText(isIntrospection) \o " or error "
                                       \o BoolText(hasErrors)>>)

\* shouldSendEvent: the six signals are computed first, in the order of the
\* source (a throw of one of them ends the call), then the cascade decides
shouldSendEvent(opts) ==
  LET allowedOperation == allowOperation(opts)
      isAnonymous == isAnonymousOperation(opts.params)
  IN IF allowedOperation.throws
     THEN allowedOperation
     ELSE IF isAnonymous.throws
          THEN Throw(isAnonymous.value, allowedOperation.log)
          ELSE cascade(opts, allowedOperation.value, isAnonymous.value,
                       isIntrospectionQuery(opts.params), hasErrorsOf(opts),
                       denyType(opts), denySchemaCoordinate(opts),
                       allowedOperation.log)

----------------------------------------------------------------------------
(* Entity extraction *)

\* scalar leaf values of a result: JavaScript numbers and strings
Number(n) == [type |-> "number", number |-> n, string |-> ""]
String(t) == [type |-> "string", number |-> 0, string |-> t]

DigitText == <<"0", "1", "2", "3", "4", "5", "6", "7", "8", "9">>

\* a non-negative integer in decimal
RECURSIVE NumberToString(_)
NumberToString(n) ==
  IF n < 10
  THEN DigitText[n + 1]
  ELSE NumberToString(n \div 10) \o DigitText[(n % 10) + 1]

\* a scalar as a template literal renders it
TemplateText(v) == IF v.type = "number" THEN NumberToString(v.number) ELSE v.string

\* Map.prototype.set on a Map held as its entries in insertion order: a key
\* already present keeps its position and takes the new value
MapSet(map, key, value) ==
  IF \E i \in 1..Len(map) : map[i].key = key
  THEN [i \in 1..Len(map) |->
          IF map[i].key = key THEN [key |-> key, value |-> value] ELSE map[i]]
  ELSE Append(map, [key |-> key, value |-> value])

\* Set.prototype.add on a Set held as its members in insertion order
SetAdd(set, x) == IF includes(set, x) THEN set ELSE Append(set, x)

\* Array.from(map.values())
MapValues(map) == [i \in 1..Len(map) |-> map[i].value]

idFields == <<"id">>

\* a visitor that counts the type of every leaf as touched
visitLeafTouchingEveryType(sets, typename, fieldName, value) ==
  IF includes(idFields, fieldName)
  THEN [identifierSet |-> MapSet(sets.identifierSet, typename \o ":" \o TemplateText(value),
                                 [typename |-> typename, id |-> value]),
        typeSet |-> SetAdd(sets.typeSet, typename)]
  ELSE [identifierSet |-> sets.identifierSet, typeSet |-> SetAdd(sets.typeSet, typename)]

\* The visitor visitResult is given, applied to the leaf value of field
\* fieldName of an object of type typename: the Proxy hands out a handler for
\* the id fields only (documentChanged is false), and the handler records the
\* pair under the key `${typename}:${id}` and the typename.
visitLeaf(sets, typename, fieldName, value) ==
  IF includes(idFields, fieldName)
  THEN [identifierSet |-> MapSet(sets.identifierSet, typename \o ":" \o TemplateText(value),
                                 [typename |-> typename, id |-> value]),
        typeSet |-> SetAdd(sets.typeSet, typename)]
  ELSE sets

----------------------------------------------------------------------------
(* Identity and naming.  The builders are not among the sources (only their    *)
(* tests are); they are modelled from the specification's sections 3, 4.1, 4.2. *)

\* operationNameOf: the explicit name if given, else the name declared on the
\* operation node, else undefined
operationNameOf(opts) ==
  LET args == opts.params.args
      found == SelectSeq(args.document.definitions,
                         LAMBDA d : d.kind = "OperationDefinition")
  IN IF TruthyString(args.operationName)
     THEN args.operationName
     ELSE IF Len(found) > 0 /\ TruthyString(found[1].name)
          THEN found[1].name
          ELSE Undefined

UpperCase == {"T", "Q", "F", "P"}

toLowerCase(c) ==
  CASE c = "T" -> "t"
    [] c = "Q" -> "q"
    [] c = "F" -> "f"
    [] c = "P" -> "p"
    [] OTHER -> c

\* kebab case: every upper-case letter is lowered, and starts a new word
\* (joined with '-') unless it is the first character
RECURSIVE kebabCaseFrom(_, _)
kebabCaseFrom(name, i) ==
  IF i > Len(name)
  THEN ""
  ELSE (IF name[i] \in UpperCase /\ i > 1 THEN "-" ELSE "")
         \o toLowerCase(name[i]) \o kebabCaseFrom(name, i + 1)

kebabCase(name) == kebabCaseFrom(name, 1)

\* the canonical text of a document: its definitions (kind and name), then the
\* names of its fields
RECURSIVE printDefinitions(_)
printDefinitions(definitions) ==
  IF Len(definitions) = 0
  THEN ""
  ELSE Head(definitions).operation
         \o (IF IsDefined(Head(definitions).name)
             THEN " " \o Join(Get(Head(definitions).name))
             ELSE "")
         \o "; "
         \o printDefinitions(Tail(definitions))

RECURSIVE printFields(_)
printFields(fields) ==
  IF Len(fields) = 0 THEN "" ELSE Head(fields).name \o " " \o printFields(Tail(fields))

print(document) ==
  printDefinitions(document.definitions) \o "{ " \o printFields(document.fields) \o "}"

\* documentHash: a one-way digest of the canonical text, kept symbolic (two
\* texts have the same digest exactly when they are the same text)
buildOperationId(opts) == "sha256(" \o print(opts.params.args.document) \o ")"

\* eventIdentifier: the kebab-cased operation name, or "anonymous-{documentHash}"
buildOperationNameForEventName(opts) ==
  IF IsDefined(operationNameOf(opts))
  THEN kebabCase(Get(operationNameOf(opts)))
  ELSE "anonymous-" \o buildOperationId(opts)

\* eventName: "{prefix}/{eventIdentifier}.{operationKind}"
buildEventName(opts) ==
  opts.eventNamePrefix \o "/" \o buildOperationNameForEventName(opts)
    \o "." \o getOperation(opts.params)

----------------------------------------------------------------------------
(* The inputs of an execution *)

\* the options object handed to the exported functions
Options(document, operationName, sendOperations, flags, denylist, result, prefix) ==
  [params |-> [args |-> [document |-> document, operationName |-> operationName]],
   sendOperations |-> sendOperations,
   sendAnonymousOperations |-> flags[1],
   sendIntrospection |-> flags[2],
   sendErrors |-> flags[3],
   denylist |-> denylist,
   result |-> result,
   eventName |-> "graphql-test/test-query.query",
   eventNamePrefix |-> prefix]

\* an optional boolean option: unset, false or true
FlagValues == {Undefined, Some(FALSE), Some(TRUE)}

\* execution results: none, one without an errors key, and ones with 0..MaxErrors errors
Results ==
  {Undefined, Some([errors |-> Undefined])}
    \cup {Some([errors |-> Some(e)]) : e \in SeqsUpTo({"Error"}, MaxErrors)}

\* denylists: none, empty, types only, schema coordinates only, both
Denylists ==
  {Undefined,
   Some([types |-> Some(<<>>), schemaCoordinates |-> Some(<<>>)]),
   Some([types |-> Some(<<"Post">>), schemaCoordinates |-> Undefined]),
   Some([types |-> Undefined, schemaCoordinates |-> Some(<<"Post.title">>)]),
   Some([types |-> Some(<<"Post">>), schemaCoordinates |-> Some(<<"Query.post", "Post.title">>)])}

OperationDefinitions ==
  {OperationDefinition(operation, name) :
     operation \in OperationTypes, name \in {Undefined, Some(TestQuery)}}

Definitions == OperationDefinitions \cup {FragmentDefinition(FindPosts)}

Fields == {FieldSchema, FieldPost, FieldTitle}

\* the documents the policy cascade is explored on: one operation, any fields
PolicyDocuments ==
  {Document(<<d>>, f) : d \in OperationDefinitions, f \in SeqsUpTo(Fields, MaxFields)}

\* the documents the walks are explored on: one query whose fields resolve or
\* do not resolve against the schema
WalkFields == Fields \cup {FieldUnknown, FieldOrphan}

WalkDocuments ==
  {Document(<<OperationDefinition("query", Some(TestQuery))>>, f) :
     f \in SeqsUpTo(WalkFields, MaxFields)}

\* the documents operation resolution is explored on: what the parser accepts,
\* one to MaxDefs operation and fragment definitions in any order
OperationDocuments ==
  {Document(ds, <<FieldTitle>>) : ds \in SeqsUpTo(Definitions, MaxDefs) \ {<<>>}}

\* the documents entity extraction is explored on: the query of the tests, and
\* a document of fragments only
ExtractDocuments ==
  {Document(<<d>>, <<FieldPost>>) :
     d \in {OperationDefinition("query", Some(FindPosts)), FragmentDefinition(FindPosts)}}

\* the leaves of the result trees: object types, field names, scalar values
Typenames == {"Post", "Comment"}
IdValues == {Number(5), Number(11), String("5")}
Leaves ==
  {[fieldName |-> "id", value |-> v] : v \in IdValues}
    \cup {[fieldName |-> "title", value |-> String("hello")]}

----------------------------------------------------------------------------
(* The state machine: one execution, and the exported functions called on it *)

NoExtraction ==
  /\ visited = <<>>
  /\ identifierSet = <<>>
  /\ typeSet = <<>>
  /\ pc = "idle"

InitPolicy ==
  /\ \E document \in PolicyDocuments,
        operationName \in {Undefined, Some(TestQuery)},
        flags \in FlagValues \X FlagValues \X FlagValues,
        denylist \in Denylists,
        result \in Results :
       options = Options(document, operationName, Some(<<"query">>), flags, denylist,
                         result, "graphql-test")
  /\ called = "none"
  /\ ret = NoCall
  /\ NoExtraction

InitOperation ==
  /\ \E document \in OperationDocuments,
        operationName \in {Undefined, Some(<<>>), Some(TestQuery), Some(FindPosts)},
        sendOperations \in {Undefined, Some(<<>>), Some(<<"query">>),
                            Some(<<"query", "mutation">>)},
        flags \in {<<Undefined, Undefined, Undefined>>, <<Some(TRUE), Some(TRUE), Some(TRUE)>>},
        prefix \in {"graphql-test", "gql"} :
       options = Options(document, operationName, sendOperations, flags, Undefined,
                         Some([errors |-> Undefined]), prefix)
  /\ called = "none"
  /\ ret = NoCall
  /\ NoExtraction

InitExtract ==
  /\ \E document \in ExtractDocuments :
       options = Options(document, Undefined, Some(<<"query">>),
                         <<Undefined, Undefined, Undefined>>, Undefined,
                         Some([errors |-> Some(<<>>)]), "graphql-test")
  /\ called = "none"
  /\ ret = NoCall
  /\ NoExtraction

InitWalk ==
  /\ \E document \in WalkDocuments, denylist \in Denylists :
       options = Options(document, Undefined, Some(<<"query">>),
                         <<Undefined, Undefined, Undefined>>, denylist,
                         Some([errors |-> Undefined]), "graphql-test")
  /\ called = "none"
  /\ ret = NoCall
  /\ NoExtraction

Call(name, outcome) ==
  /\ called = "none"
  /\ pc = "idle"
  /\ called' = name
  /\ ret' = outcome
  /\ UNCHANGED <<options, visited, identifierSet, typeSet, pc>>

CallGetOperation == Call("getOperation", Return(getOperation(options.params), <<>>))

CallGetOperationName == Call("getOperationName", getOperationName(options))

CallIsAnonymousOperation == Call("isAnonymousOperation", isAnonymousOperation(options.params))

CallSendOperation == Call("sendOperation", sendOperation(options))

CallShouldSendEvent == Call("shouldSendEvent", shouldSendEvent(options))

CallBuildOperationNameForEventName ==
  Call("buildOperationNameForEventName", Return(buildOperationNameForEventName(options), <<>>))

CallBuildEventName == Call("buildEventName", Return(buildEventName(options), <<>>))

\* buildTypeIdentifiers, up to its call of visitResult: the fresh Map and Set,
\* and getOperationName(options), evaluated for visitResult's arguments
StartBuildTypeIdentifiers ==
  /\ called = "none"
  /\ pc = "idle"
  /\ called' = "buildTypeIdentifiers"
  /\ identifierSet' = <<>>
  /\ typeSet' = <<>>
  /\ visited' = <<>>
  /\ IF getOperationName(options).throws
     THEN ret' = getOperationName(options) /\ pc' = "done"
     ELSE ret' = ret /\ pc' = "visiting"
  /\ UNCHANGED options

\* visitResult reaches the next leaf of the result tree
VisitLeaf(typename, fieldName, value) ==
  /\ pc = "visiting"
  /\ Len(visited) < MaxLeaves
  /\ visited' = Append(visited, [typename |-> typename, fieldName |-> fieldName, value |-> value])
  /\ LET sets == visitLeaf([identifierSet |-> identifierSet, typeSet |-> typeSet],
                           typename, fieldName, value)
     IN identifierSet' = sets.identifierSet /\ typeSet' = sets.typeSet
  /\ UNCHANGED <<options, called, ret, pc>>

\* visitResult is over: the Map's values and the Set's members are returned
ReturnTypeIdentifiers ==
  /\ pc = "visiting"
  /\ pc' = "done"
  /\ ret' = Return([types |-> typeSet, identifiers |-> MapValues(identifierSet)], <<>>)
  /\ UNCHANGED <<options, called, visited, identifierSet, typeSet>>

NextExtract ==
  \/ StartBuildTypeIdentifiers
  \/ \E typename \in Typenames, leaf \in Leaves :
       VisitLeaf(typename, leaf.fieldName, leaf.value)
  \/ ReturnTypeIdentifiers

SpecExtract == InitExtract /\ [][NextExtract]_vars

\* the three document walks
Walks == {"isIntrospectionQuery", "denyType", "denySchemaCoordinate"}

\* a walk up to its call of visit(): its flag is false, no field entered yet
StartWalk(name) ==
  /\ called = "none"
  /\ pc = "idle"
  /\ called' = name
  /\ pc' = "visiting"
  /\ visited' = <<>>
  /\ UNCHANGED <<options, ret, identifierSet, typeSet>>

\* visit() enters the next field node of the document and calls Field(): on
\* BREAK the visit is over and the walk returns its flag, now true
EnterField ==
  /\ pc = "visiting"
  /\ called \in Walks
  /\ Len(visited) < Len(options.params.args.document.fields)
  /\ LET fieldNode == options.params.args.document.fields[Len(visited) + 1]
     IN /\ visited' = Append(visited, fieldNode)
        /\ IF FieldVisitor(called, options, fieldNode) = "BREAK"
           THEN pc' = "done" /\ ret' = Return(TRUE, <<>>)
           ELSE pc' = pc /\ ret' = ret
  /\ UNCHANGED <<options, called, identifierSet, typeSet>>

\* visit() has left the document without a BREAK: the walk returns its flag,
\* still false
LeaveDocument ==
  /\ pc = "visiting"
  /\ called \in Walks
  /\ Len(visited) = Len(options.params.args.document.fields)
  /\ pc' = "done"
  /\ ret' = Return(FALSE, <<>>)
  /\ UNCHANGED <<options, called, visited, identifierSet, typeSet>>

NextWalk ==
  \/ \E name \in Walks : StartWalk(name)
  \/ EnterField
  \/ LeaveDocument

SpecWalk == InitWalk /\ [][NextWalk]_vars

NextPolicy == CallShouldSendEvent

SpecPolicy == InitPolicy /\ [][NextPolicy]_vars

NextOperation ==
  \/ CallGetOperation
  \/ CallGetOperationName
  \/ CallIsAnonymousOperation
  \/ CallSendOperation
  \/ CallShouldSendEvent
  \/ CallBuildOperationNameForEventName
  \/ CallBuildEventName

SpecOperation == InitOperation /\ [][NextOperation]_vars

----------------------------------------------------------------------------
(* The signals of the policy, stated on the inputs *)

Doc == options.params.args.document
OperationNameArg == options.params.args.operationName
OperationNodes == SelectSeq(Doc.definitions, LAMBDA d : d.kind = "OperationDefinition")

AllowSet ==
  IF IsDefined(options.sendOperations)
  THEN {Get(options.sendOperations)[i] : i \in 1..Len(Get(options.sendOperations))}
  ELSE {}

DeniedTypes ==
  IF IsDefined(options.denylist) /\ IsDefined(Get(options.denylist).types)
  THEN {Get(Get(options.denylist).types)[i] : i \in 1..Len(Get(Get(options.denylist).types))}
  ELSE {}

DeniedCoordinates ==
  IF IsDefined(options.denylist) /\ IsDefined(Get(options.denylist).schemaCoordinates)
  THEN {Get(Get(options.denylist).schemaCoordinates)[i] :
          i \in 1..Len(Get(Get(options.denylist).schemaCoordinates))}
  ELSE {}

\* no operation definition resolves: none or several operations and no
\* operationName, or an operationName that no operation carries
NoOperationResolves ==
  IF IsDefined(OperationNameArg)
  THEN \A i \in 1..Len(OperationNodes) : OperationNodes[i].name # OperationNameArg
  ELSE Len(OperationNodes) # 1

\* the type of the operation that resolves
ResolvedKind ==
  IF IsDefined(OperationNameArg)
  THEN LET i == CHOOSE j \in 1..Len(OperationNodes) :
                  /\ OperationNodes[j].name = OperationNameArg
                  /\ \A k \in 1..(j - 1) : OperationNodes[k].name # OperationNameArg
       IN OperationNodes[i].operation
  ELSE OperationNodes[1].operation

KindAllowed == ~NoOperationResolves /\ ResolvedKind \in AllowSet

TouchesDeniedType ==
  \E i \in 1..Len(Doc.fields) :
    IsDefined(Doc.fields[i].type) /\ Get(Doc.fields[i].type) \in DeniedTypes

TouchesDeniedCoordinate ==
  \E i \in 1..Len(Doc.fields) :
    /\ IsDefined(Doc.fields[i].parentType)
    /\ (Get(Doc.fields[i].parentType) \o "." \o Doc.fields[i].name) \in DeniedCoordinates

ExplicitNameGiven == IsDefined(OperationNameArg) /\ Len(Get(OperationNameArg)) > 0

HasOperationDefinition == Len(OperationNodes) > 0

DeclaredNameExists == HasOperationDefinition /\ IsDefined(OperationNodes[1].name)

Anonymous == ~ExplicitNameGiven /\ ~DeclaredNameExists

Introspection ==
  \E i \in 1..Len(Doc.fields) :
    IsDefined(Doc.fields[i].type) /\ Get(Doc.fields[i].type) \in IntrospectionTypes

ResultHasErrors ==
  /\ IsDefined(options.result)
  /\ IsDefined(Get(options.result).errors)
  /\ Len(Get(Get(options.result).errors)) >= 1

FlagSet(flag) == flag = Some(TRUE)

Returned(name, value) == called = name /\ ~ret.throws /\ ret.value = value

----------------------------------------------------------------------------
(* C1 *)

\* the ordered rules of the cascade: when a rule applies, and what it decides
CascadeRules ==
  <<[applies |-> ~KindAllowed, decision |-> FALSE],
    [applies |-> TouchesDeniedType, decision |-> FALSE],
    [applies |-> TouchesDeniedCoordinate, decision |-> FALSE],
    [applies |-> Anonymous /\ FlagSet(options.sendAnonymousOperations), decision |-> TRUE],
    [applies |-> Introspection /\ FlagSet(options.sendIntrospection), decision |-> TRUE],
    [applies |-> ResultHasErrors /\ FlagSet(options.sendErrors), decision |-> TRUE],
    [applies |-> TRUE, decision |-> ~Introspection /\ ~ResultHasErrors]>>

FirstMatchingRule ==
  CHOOSE i \in 1..Len(CascadeRules) :
    CascadeRules[i].applies /\ \A j \in 1..(i - 1) : ~CascadeRules[j].applies

\* C1: for every combination of the six signals and the three flags,
\* shouldSendEvent returns the decision of the first rule of the ordered cascade
\* that applies.
C1_FirstMatchingRuleDecides ==
  called = "shouldSendEvent" =>
    ~ret.throws /\ ret.value = CascadeRules[FirstMatchingRule].decision

\* rule 6 decides: an introspection query with errors, sendErrors set and
\* sendIntrospection not set, is sent
C1_Witness ==
  /\ Returned("shouldSendEvent", TRUE)
  /\ FirstMatchingRule = 6
  /\ Introspection
  /\ ~FlagSet(options.sendIntrospection)

----------------------------------------------------------------------------
(* C2 *)

\* C2: deny rules precede allow overrides: when the kind is not allowed, or a
\* denied type or a denied schema coordinate is touched, shouldSendEvent returns
\* false whatever the three flags and the other three signals are.
C2_DenyPrecedesAllow ==
  (called = "shouldSendEvent" /\ (~KindAllowed \/ TouchesDeniedType \/ TouchesDeniedCoordinate))
    => ~ret.throws /\ ret.value = FALSE

\* an allowed introspection query with sendIntrospection set that touches a
\* denied type is denied
C2_Witness ==
  /\ Returned("shouldSendEvent", FALSE)
  /\ KindAllowed
  /\ Introspection
  /\ FlagSet(options.sendIntrospection)
  /\ TouchesDeniedType
  /\ ~TouchesDeniedCoordinate

----------------------------------------------------------------------------
(* C3 *)

DefaultConfiguration ==
  /\ KindAllowed
  /\ DeniedTypes = {}
  /\ DeniedCoordinates = {}
  /\ ~FlagSet(options.sendAnonymousOperations)
  /\ ~FlagSet(options.sendIntrospection)
  /\ ~FlagSet(options.sendErrors)

\* C3: default cascade: kind allowed, empty denylists, the three flags unset or
\* false: an operation neither introspection nor carrying errors is sent, one
\* whose result carries one or more errors is not.
C3_DefaultCascade ==
  (called = "shouldSendEvent" /\ DefaultConfiguration) =>
    /\ ~ret.throws
    /\ (~Introspection /\ ~ResultHasErrors) => ret.value = TRUE
    /\ ResultHasErrors => ret.value = FALSE

\* an operation with an error is not sent under the default configuration
C3_Witness ==
  /\ Returned("shouldSendEvent", FALSE)
  /\ DefaultConfiguration
  /\ ResultHasErrors
  /\ ~Introspection

\* an operation with an empty errors array is sent under the default configuration
C3_WitnessSent ==
  /\ Returned("shouldSendEvent", TRUE)
  /\ DefaultConfiguration
  /\ IsDefined(options.result)
  /\ Get(options.result).errors = Some(<<>>)

----------------------------------------------------------------------------
(* C4 *)

\* C4: whenever no operation definition resolves, sendOperation and
\* shouldSendEvent return false and do not throw, whatever the allow-set is.
C4_UnknownIsDeniedNeverThrown ==
  (called \in {"sendOperation", "shouldSendEvent"} /\ NoOperationResolves)
    => ~ret.throws /\ ret.value = FALSE

----------------------------------------------------------------------------
(* C5 *)

\* C5: with sendOperations absent, sendOperation returns false for every
\* operation kind, does not throw, and logs 'No operations are allowed.' on
\* that call.
C5_AbsentAllowListWarns ==
  (called = "sendOperation" /\ ~IsDefined(options.sendOperations)) =>
    /\ ~ret.throws
    /\ ret.value = FALSE
    /\ includes(ret.log, "No operations are allowed.")

----------------------------------------------------------------------------
(* Entity extraction, stated on the leaves visited *)

\* the (typename, id) pairs observed so far: one for each id leaf visited
IdLeaves == {i \in 1..Len(visited) : visited[i].fieldName = "id"}
Pair(i) == [typename |-> visited[i].typename, id |-> visited[i].value]
ObservedPairs == {Pair(i) : i \in IdLeaves}
TimesObserved(pair) == Cardinality({i \in IdLeaves : Pair(i) = pair})

\* how many entries of a list equal x
Count(list, x) == Cardinality({i \in 1..Len(list) : list[i] = x})

\* buildTypeIdentifiers has returned its { types, identifiers }
ExtractionReturned == called = "buildTypeIdentifiers" /\ pc = "done" /\ ~ret.throws

\* inside visitResult: the Map and the Set are being filled
ExtractionVisiting == called = "buildTypeIdentifiers" /\ pc = "visiting"

----------------------------------------------------------------------------
(* C6 *)

RepeatedPairsOnce(identifiers, types) ==
  \A pair \in ObservedPairs :
    TimesObserved(pair) >= 2 =>
      Count(identifiers, pair) = 1 /\ Count(types, pair.typename) = 1

\* C6: a (typename, id) pair observed several times appears exactly once in
\* identifiers, and its typename exactly once in types.
C6_RepeatedPairAppearsOnce ==
  /\ ExtractionVisiting => RepeatedPairsOnce(MapValues(identifierSet), typeSet)
  /\ ExtractionReturned => RepeatedPairsOnce(ret.value.identifiers, ret.value.types)

----------------------------------------------------------------------------
(* C7 *)

OneEntryPerDistinctPair(identifiers, types) ==
  /\ \A pair \in ObservedPairs : Count(identifiers, pair) = 1
  /\ \A i \in 1..Len(identifiers) : identifiers[i] \in ObservedPairs
  /\ Len(identifiers) = Cardinality(ObservedPairs)

\* C7: identifiers holds one entry for each distinct (typename, id) pair
\* observed, equal to that pair; pairs that differ in typename or in id value are
\* never merged, so its length is the number of distinct pairs observed.
C7_OneEntryPerDistinctPair ==
  /\ ExtractionVisiting => OneEntryPerDistinctPair(MapValues(identifierSet), typeSet)
  /\ ExtractionReturned => OneEntryPerDistinctPair(ret.value.identifiers, ret.value.types)

----------------------------------------------------------------------------
(* C8 *)

TypesAreTheTypesOfIdentifiers(identifiers, types) ==
  /\ \A typename \in Typenames :
       includes(types, typename) <=>
         \E i \in 1..Len(identifiers) : identifiers[i].typename = typename
  /\ \A i \in 1..Len(types) : types[i] \in Typenames /\ Count(types, types[i]) = 1

\* C8: at every point of an extraction and in its returned value, a typename is
\* in types if and only if identifiers holds an entry with that typename, and
\* types holds no typename twice.
C8_TypesIffIdentifier ==
  /\ ExtractionVisiting => TypesAreTheTypesOfIdentifiers(MapValues(identifierSet), typeSet)
  /\ ExtractionReturned => TypesAreTheTypesOfIdentifiers(ret.value.identifiers, ret.value.types)

\* returned: two Post identifiers and a Post title leaf, no Comment identifier
C8_Witness ==
  /\ ExtractionReturned
  /\ Len(ret.value.identifiers) = 2
  /\ ret.value.types = <<"Post">>
  /\ \E i \in 1..Len(visited) : visited[i].fieldName = "title" /\ visited[i].typename = "Comment"

----------------------------------------------------------------------------
(* C9 *)

\* the name the operation goes by: the one supplied, else the one declared
SuppliedOrDeclaredName ==
  IF ExplicitNameGiven
  THEN OperationNameArg
  ELSE IF DeclaredNameExists THEN OperationNodes[1].name ELSE Undefined

\* the kebab-cased names the tests expect
KebabCased(name) ==
  CASE name = TestQuery -> "test-query"
    [] name = FindPosts -> "find-posts"

ExpectedEventIdentifier ==
  IF IsDefined(SuppliedOrDeclaredName)
  THEN KebabCased(Get(SuppliedOrDeclaredName))
  ELSE "anonymous-" \o buildOperationId(options)

ExpectedOperationKind == IF NoOperationResolves THEN "unknown" ELSE ResolvedKind

WithOperationName(name) == [options EXCEPT !.params.args.operationName = name]

C9_WitnessAnonymous ==
  /\ called = "buildEventName"
  /\ Anonymous
  /\ ret.value = "graphql-test/anonymous-sha256(query; { title }).query"

----------------------------------------------------------------------------
(* C10 *)

\* C10: getOperationName returns the explicit operationName argument if one is
\* given, else the name declared on the operation node, else undefined;
\* isAnonymousOperation is true exactly when neither name exists.
C10_OperationNameResolution ==
  /\ called = "getOperationName" => ~ret.throws /\ ret.value = SuppliedOrDeclaredName
  /\ called = "isAnonymousOperation" => ~ret.throws /\ ret.value = Anonymous

----------------------------------------------------------------------------
(* C11 *)

\* a document walk is under way or has returned
WalkCalled == called \in Walks

\* the predicate of each walk, stated on a field node and the denylist
Satisfies(name, fieldNode) ==
  IF name = "isIntrospectionQuery"
  THEN IsDefined(fieldNode.type) /\ Get(fieldNode.type) \in IntrospectionTypes
  ELSE IF name = "denyType"
  THEN IsDefined(fieldNode.type) /\ Get(fieldNode.type) \in DeniedTypes
  ELSE /\ IsDefined(fieldNode.parentType)
       /\ (Get(fieldNode.parentType) \o "." \o fieldNode.name) \in DeniedCoordinates

\* the positions of the fields of the document that satisfy a walk's predicate
MatchingFields(name) == {i \in 1..Len(Doc.fields) : Satisfies(name, Doc.fields[i])}

\* the answer of a walk that looks at every field of the document
ExhaustiveAnswer(name) == MatchingFields(name) # {}

FirstMatch(name) == CHOOSE i \in MatchingFields(name) : \A j \in MatchingFields(name) : i <= j

\* the answer of the walk as shouldSendEvent obtains it
AnswerInCascade(name) ==
  IF name = "isIntrospectionQuery" THEN isIntrospectionQuery(options.params)
  ELSE IF name = "denyType" THEN denyType(options)
  ELSE denySchemaCoordinate(options)

\* one pass: the fields entered are the first fields of the document, in order,
\* and none but the last entered satisfies the predicate
OnePassStoppedAtFirstMatch ==
  /\ Len(visited) <= Len(Doc.fields)
  /\ visited = SubSeq(Doc.fields, 1, Len(visited))
  /\ \A i \in 1..Len(visited) :
       Satisfies(called, visited[i]) => i = Len(visited) /\ pc = "done"

\* C11: each of isIntrospectionQuery, denyType and denySchemaCoordinate makes one
\* pass over the fields of the document and returns true if and only if some
\* field satisfies its predicate: the answer is that of an exhaustive walk, no
\* field is entered after the first match, and with an absent or empty denylist
\* the two deny walks return false.
C11_EarlyTerminatingWalks ==
  /\ WalkCalled => OnePassStoppedAtFirstMatch
  /\ WalkCalled /\ pc = "done" =>
       /\ ~ret.throws
       /\ ret.value = ExhaustiveAnswer(called)
       /\ ret.value = AnswerInCascade(called)
       /\ ret.value => Len(visited) = FirstMatch(called)
       /\ ~ret.value => Len(visited) = Len(Doc.fields)
       /\ called = "denyType" /\ DeniedTypes = {} => ret.value = FALSE
       /\ called = "denySchemaCoordinate" /\ DeniedCoordinates = {} => ret.value = FALSE

\* denyType stopped at the first of two fields of a denied type
C11_Witness ==
  /\ called = "denyType"
  /\ pc = "done"
  /\ ret.value = TRUE
  /\ Len(visited) = 1
  /\ Len(Doc.fields) = 2
  /\ Satisfies("denyType", Doc.fields[2])

\* a deny walk over two fields with an empty denylist answered false
C11_WitnessEmptyDenylist ==
  /\ called = "denySchemaCoordinate"
  /\ pc = "done"
  /\ ret.value = FALSE
  /\ options.denylist = Some([types |-> Some(<<>>), schemaCoordinates |-> Some(<<>>)])
  /\ Len(visited) = 2

----------------------------------------------------------------------------
(* C12 *)

\* the members of a list in the order of their first occurrence
RECURSIVE FirstDiscovered(_)
FirstDiscovered(list) ==
  IF Len(list) = 0
  THEN <<>>
  ELSE LET front == FirstDiscovered(SubSeq(list, 1, Len(list) - 1))
           last == list[Len(list)]
       IN IF includes(front, last) THEN front ELSE Append(front, last)

\* the id leaves visited so far, in the order of the visit
IdLeavesInOrder == SelectSeq(visited, LAMBDA leaf : leaf.fieldName = "id")

PairsInOrder ==
  [i \in 1..Len(IdLeavesInOrder) |->
     [typename |-> IdLeavesInOrder[i].typename, id |-> IdLeavesInOrder[i].value]]

TypenamesInOrder == [i \in 1..Len(IdLeavesInOrder) |-> IdLeavesInOrder[i].typename]

InFirstDiscoveryOrder(identifiers, types) ==
  /\ identifiers = FirstDiscovered(PairsInOrder)
  /\ types = FirstDiscovered(TypenamesInOrder)

\* a step of the visit onto an id leaf whose pair (whose typename) is already
\* recorded leaves identifiers (types) as it was
ReoccurrenceKeepsEntries ==
  ExtractionVisiting /\ Len(visited') = Len(visited) + 1 =>
    LET leaf == visited'[Len(visited')]
    IN leaf.fieldName = "id" =>
         /\ [typename |-> leaf.typename, id |-> leaf.value] \in ObservedPairs
              => MapValues(identifierSet') = MapValues(identifierSet)
         /\ (\E pair \in ObservedPairs : pair.typename = leaf.typename)
              => typeSet' = typeSet

\* C12: at every point of an extraction and in its returned value, identifiers
\* lists the distinct (typename, id) pairs in the order in which each was first
\* discovered and types lists the typenames in the order in which each was first
\* discovered; visiting an already recorded pair or typename again does not
\* move or change its entry.
C12_FirstDiscoveryOrder ==
  /\ [](ExtractionVisiting => InFirstDiscoveryOrder(MapValues(identifierSet), typeSet))
  /\ [](ExtractionReturned => InFirstDiscoveryOrder(ret.value.identifiers, ret.value.types))
  /\ [][ReoccurrenceKeepsEntries]_vars

====
